---- MODULE Spec2Model ----
(***************************************************************************)
(* Model of src/src/App.tsx.  The file holds two React components:         *)
(*   - ProvisionForm (lines 36-182): two input fields, two regular         *)
(*     expressions, and the async handler handleSubmit that POSTs the      *)
(*     fields to LAMBDA_URL and turns the answer into a message;           *)
(*   - App (lines 195-362): the estimate viewer with toNumber,             *)
(*     getUsdJpyRate and the async handler handleFile.                     *)
(* Strings the code inspects character by character (the two fields) are   *)
(* sequences of one-character strings.  A message text is the sequence of  *)
(* the segments its template literal concatenates.  An optional JSON       *)
(* property is <<>> when absent and <<v>> when present.                    *)
(***************************************************************************)
EXTENDS Integers, Sequences, FiniteSets, TLC

(* ------------------------------ bounds --------------------------------- *)
MaxSubmits == 4
MaxAccepted == 2
MaxNameLen == 34
MaxEmailLen == 6

(* ------------------------- character classes --------------------------- *)
Upper == {"A","B","C","D","E","F","G","H","I","J","K","L","M",
          "N","O","P","Q","R","S","T","U","V","W","X","Y","Z"}
Lower == {"a","b","c","d","e","f","g","h","i","j","k","l","m",
          "n","o","p","q","r","s","t","u","v","w","x","y","z"}
Digit == {"0","1","2","3","4","5","6","7","8","9"}
Whitespace == {" ", "\t", "\n", "\r", "\f"}

NameMin == 3
NameMax == 32
NameClass == Upper \cup Lower \cup Digit \cup {"-"}

NAME_REGEX_Unanchored(s) ==
    \E i \in 1..(Len(s) - (NameMin - 1)) :
        \A k \in i..(i + NameMin - 1) : s[k] \in NameClass

(* line 52: /^[A-Za-z0-9-]{3,32}$/ *)
NAME_REGEX(s) ==
    /\ Len(s) >= NameMin
    /\ Len(s) <= NameMax
    /\ \A k \in 1..Len(s) : s[k] \in NameClass

EmailClassOk(c) == c # "@" /\ c \notin Whitespace

EMAIL_REGEX_AnyNonSpace(s) ==
    \E i \in 2..Len(s) : \E j \in (i + 2)..(Len(s) - 1) :
        /\ s[i] = "@"
        /\ s[j] = "."
        /\ \A k \in 1..Len(s) : s[k] \notin Whitespace

(* line 53: /^[^@\s]+@[^@\s]+\.[^@\s]+$/ *)
EMAIL_REGEX(s) ==
    \E i \in 2..Len(s) : \E j \in (i + 2)..(Len(s) - 1) :
        /\ s[i] = "@"
        /\ s[j] = "."
        /\ \A k \in 1..Len(s) : (k # i) => EmailClassOk(s[k])

RECURSIVE TrimStart(_)
TrimStart(s) ==
    IF s # <<>> /\ Head(s) \in Whitespace THEN TrimStart(Tail(s)) ELSE s

RECURSIVE TrimEnd(_)
TrimEnd(s) ==
    IF s # <<>> /\ s[Len(s)] \in Whitespace
    THEN TrimEnd(SubSeq(s, 1, Len(s) - 1)) ELSE s

Trim(s) == TrimEnd(TrimStart(s))

(* ------------------------------ inputs --------------------------------- *)
NameInputs == { <<>>, <<"a","b">>, <<"w","i","n","-","0","1">> }
EmailInputs == { <<>>, <<"y","o","u">>, <<"a","@","b",".","c">> }

PLACEHOLDER_URL_CHECK == "https://YOUR_ACTUAL_LAMBDA_FUNCTION_URL_HERE"
Endpoints == { "", PLACEHOLDER_URL_CHECK, "https://fn.example/provision" }

TransportErrors == { "Failed to fetch", "Load failed" }

(* message texts (the fixed segments of the template literals) *)
CONFIG_ERROR_TEXT == "config error: Lambda function URL is not set in the code"
SUCCESS_PREFIX == "request started. approval ID: "
SUCCESS_SUFFIX == "."
FAILURE_PREFIX == "request failed: "
UNKNOWN_SERVER_ERROR == "unknown server error"
NETWORK_ERROR_TEXT == "A network error occurred. Check the console."

NULL == [type |-> "null", text |-> <<>>]

(* ------------------------ JSON bodies and JS ---------------------------- *)
None == <<>>
Some(v) == <<v>>

ExecutionIds == { None, Some("abc123") }
ErrorStrings == { None, Some(""), Some("quota exceeded") }

ObjectBodies ==
    [kind : {"object"}, ok : BOOLEAN, executionId : ExecutionIds,
     error : ErrorStrings]
NullBody == [kind |-> "null", ok |-> FALSE, executionId |-> None, error |-> None]
TextBody == [kind |-> "text", ok |-> FALSE, executionId |-> None, error |-> None]
Bodies == ObjectBodies \cup {NullBody, TextBody}

NoBody == [kind |-> "none", ok |-> FALSE, executionId |-> None, error |-> None]
NoResp == [arrived |-> FALSE, ok |-> FALSE, body |-> NoBody, thrown |-> None]

(* String(v) as a template literal applies it to an optional property *)
ToStr(opt) == IF opt = None THEN "undefined" ELSE opt[1]

(* truthiness of an optional string property *)
Truthy(opt) == opt # None /\ opt[1] # ""

(* ======================= ProvisionForm: state ========================= *)
VARIABLES
    LAMBDA_URL,     \* the endpoint constant the build was made with
    instanceName,   \* useState('')
    email,          \* useState('')
    isSubmitting,   \* useState(false)
    message,        \* useState(null)
    calls,          \* handleSubmit invocations that passed the guard
    requests,       \* bodies handed to fetch(LAMBDA_URL, ...), in order
    console,        \* errors written by console.error
    last,           \* what the most recently finished invocation received
    nSubmits,       \* number of submit events delivered to handleSubmit
    lastSubmit      \* what line 63 read at the latest submit event

formVars == <<LAMBDA_URL, instanceName, email, isSubmitting, message,
              calls, requests, console, last, nSubmits, lastSubmit>>

isValidName == NAME_REGEX(instanceName)
isValidEmail == EMAIL_REGEX(email)
isFormValid == isValidName /\ isValidEmail

SubmitGuard_NoValidity == ~isSubmitting

SubmitGuard_NoBusy == isFormValid

(* line 63: if (!isFormValid || isSubmitting) return; *)
SubmitGuard == ~(~isFormValid \/ isSubmitting)

Unconfigured_EmptyOnly == LAMBDA_URL = ""

(* line 69 *)
Unconfigured == LAMBDA_URL = "" \/ LAMBDA_URL = PLACEHOLDER_URL_CHECK

RequestBody == [instanceName |-> Trim(instanceName),
                requesterEmail |-> Trim(email)]

ConfigErrorMessage == [type |-> "error", text |-> <<CONFIG_ERROR_TEXT>>]

SuccessMessage(data) ==
    [type |-> "success",
     text |-> <<SUCCESS_PREFIX, ToStr(data.executionId), SUCCESS_SUFFIX>>]

FailureMessage(data) ==
    [type |-> "error",
     text |-> <<FAILURE_PREFIX,
                IF Truthy(data.error) THEN ToStr(data.error)
                ELSE UNKNOWN_SERVER_ERROR>>]

NetworkErrorMessage_WithDetail(err) ==
    [type |-> "error", text |-> <<NETWORK_ERROR_TEXT, err>>]

(* lines 110-113; the caught error is not part of the text *)
NetworkErrorMessage(err) ==
    [type |-> "error", text |-> <<NETWORK_ERROR_TEXT>>]

(* response.json() rejects on a body that is not JSON *)
JsonParses(body) == body.kind # "text"

(* data.ok / data.error throw a TypeError when data is null *)
PropertyReadThrows(body) == body.kind = "null"

IsSuccess_BodyOnly(resp) == resp.body.ok

(* line 92 *)
IsSuccess(resp) == resp.ok /\ resp.body.ok

InFlight == { i \in 1..Len(calls) : calls[i].pc \in {"fetch", "json"} }

FormInit ==
    /\ LAMBDA_URL \in Endpoints
    /\ instanceName = <<>>
    /\ email = <<>>
    /\ isSubmitting = FALSE
    /\ message = NULL
    /\ calls = <<>>
    /\ requests = <<>>
    /\ console = <<>>
    /\ last = [path |-> "none", resp |-> NoResp]
    /\ nSubmits = 0
    /\ lastSubmit = [valid |-> FALSE, busy |-> FALSE, accepted |-> FALSE]

(* ====================== ProvisionForm: actions ======================== *)
(* line 129: onChange of the name input *)
SetInstanceName ==
    /\ \E v \in NameInputs : v # instanceName /\ instanceName' = v
    /\ UNCHANGED <<LAMBDA_URL, email, isSubmitting, message, calls, requests,
                   console, last, nSubmits, lastSubmit>>

(* line 147: onChange of the email input *)
SetEmail ==
    /\ \E v \in EmailInputs : v # email /\ email' = v
    /\ UNCHANGED <<LAMBDA_URL, instanceName, isSubmitting, message, calls,
                   requests, console, last, nSubmits, lastSubmit>>

(* lines 61-63: the guard returns *)
SubmitBlocked ==
    /\ nSubmits < MaxSubmits
    /\ ~SubmitGuard
    /\ nSubmits' = nSubmits + 1
    /\ lastSubmit' = [valid |-> isFormValid, busy |-> isSubmitting,
                      accepted |-> SubmitGuard]
    /\ UNCHANGED <<LAMBDA_URL, instanceName, email, isSubmitting, message,
                   calls, requests, console, last>>

SubmitConfigError_ClearsFields ==
    /\ nSubmits < MaxSubmits
    /\ Len(calls) < MaxAccepted
    /\ SubmitGuard
    /\ Unconfigured
    /\ nSubmits' = nSubmits + 1
    /\ lastSubmit' = [valid |-> isFormValid, busy |-> isSubmitting,
                      accepted |-> SubmitGuard]
    /\ message' = ConfigErrorMessage
    /\ isSubmitting' = FALSE
    /\ instanceName' = <<>>
    /\ email' = <<>>
    /\ calls' = Append(calls, [pc |-> "done", ok |-> FALSE, path |-> "config"])
    /\ last' = [path |-> "config", resp |-> NoResp]
    /\ UNCHANGED <<LAMBDA_URL, requests, console>>

(* lines 61-76: accepted, endpoint not configured *)
SubmitConfigError ==
    /\ nSubmits < MaxSubmits
    /\ Len(calls) < MaxAccepted
    /\ SubmitGuard
    /\ Unconfigured
    /\ nSubmits' = nSubmits + 1
    /\ lastSubmit' = [valid |-> isFormValid, busy |-> isSubmitting,
                      accepted |-> SubmitGuard]
    /\ message' = ConfigErrorMessage
    /\ isSubmitting' = FALSE
    /\ calls' = Append(calls, [pc |-> "done", ok |-> FALSE, path |-> "config"])
    /\ last' = [path |-> "config", resp |-> NoResp]
    /\ UNCHANGED <<LAMBDA_URL, instanceName, email, requests, console>>

SubmitFetch_KeepsMessage ==
    /\ nSubmits < MaxSubmits
    /\ Len(calls) < MaxAccepted
    /\ SubmitGuard
    /\ ~Unconfigured
    /\ nSubmits' = nSubmits + 1
    /\ lastSubmit' = [valid |-> isFormValid, busy |-> isSubmitting,
                      accepted |-> SubmitGuard]
    /\ isSubmitting' = TRUE
    /\ requests' = Append(requests, RequestBody)
    /\ calls' = Append(calls, [pc |-> "fetch", ok |-> FALSE, path |-> "pending"])
    /\ UNCHANGED <<LAMBDA_URL, instanceName, email, console, last, message>>

(* lines 61-88: accepted, fetch started, handler suspended at the await *)
SubmitFetch ==
    /\ nSubmits < MaxSubmits
    /\ Len(calls) < MaxAccepted
    /\ SubmitGuard
    /\ ~Unconfigured
    /\ nSubmits' = nSubmits + 1
    /\ lastSubmit' = [valid |-> isFormValid, busy |-> isSubmitting,
                      accepted |-> SubmitGuard]
    /\ isSubmitting' = TRUE
    /\ message' = NULL
    /\ requests' = Append(requests, RequestBody)
    /\ calls' = Append(calls, [pc |-> "fetch", ok |-> FALSE, path |-> "pending"])
    /\ UNCHANGED <<LAMBDA_URL, instanceName, email, console, last>>

(* line 79: fetch resolves with a response; handler suspended at line 90 *)
FetchResolve(i) ==
    /\ calls[i].pc = "fetch"
    /\ \E ok \in BOOLEAN :
          calls' = [calls EXCEPT ![i] =
                      [pc |-> "json", ok |-> ok, path |-> "pending"]]
    /\ UNCHANGED <<LAMBDA_URL, instanceName, email, isSubmitting, message,
                   requests, console, last, nSubmits, lastSubmit>>

Caught_NoFinally(i, resp) ==
    /\ console' = Append(console, resp.thrown[1])
    /\ message' = [type |-> "error", text |-> <<NETWORK_ERROR_TEXT>>]
    /\ calls' = [calls EXCEPT ![i] = [@ EXCEPT !.pc = "done", !.path = "caught"]]
    /\ last' = [path |-> "caught", resp |-> resp]
    /\ UNCHANGED <<LAMBDA_URL, instanceName, email, isSubmitting, requests,
                   nSubmits, lastSubmit>>

(* lines 108-116: catch and finally *)
Caught(i, resp) ==
    /\ console' = Append(console, resp.thrown[1])
    /\ message' = NetworkErrorMessage(resp.thrown[1])
    /\ isSubmitting' = FALSE
    /\ calls' = [calls EXCEPT ![i] = [@ EXCEPT !.pc = "done", !.path = "caught"]]
    /\ last' = [path |-> "caught", resp |-> resp]
    /\ UNCHANGED <<LAMBDA_URL, instanceName, email, requests, nSubmits,
                   lastSubmit>>

(* line 79: fetch rejects (no response) *)
FetchReject(i) ==
    /\ calls[i].pc = "fetch"
    /\ \E e \in TransportErrors :
          Caught(i, [arrived |-> FALSE, ok |-> FALSE, body |-> NoBody,
                     thrown |-> Some(e)])

(* line 90 rejects, or line 92 / 105 throws on a null body *)
JsonThrow(i) ==
    /\ calls[i].pc = "json"
    /\ \E b \in Bodies :
          /\ ~JsonParses(b) \/ PropertyReadThrows(b)
          /\ Caught(i, [arrived |-> TRUE, ok |-> calls[i].ok,
                        body |-> b,
                        thrown |-> Some(IF JsonParses(b) THEN "TypeError"
                                        ELSE "SyntaxError")])

(* lines 90-100 and 114-116 *)
SubmitSuccess(i) ==
    /\ calls[i].pc = "json"
    /\ \E b \in Bodies :
          LET resp == [arrived |-> TRUE, ok |-> calls[i].ok,
                       body |-> b, thrown |-> None]
          IN  /\ JsonParses(b) /\ ~PropertyReadThrows(b)
              /\ IsSuccess(resp)
              /\ message' = SuccessMessage(b)
              /\ last' = [path |-> "success", resp |-> resp]
    /\ instanceName' = <<>>
    /\ email' = <<>>
    /\ isSubmitting' = FALSE
    /\ calls' = [calls EXCEPT ![i] = [@ EXCEPT !.pc = "done", !.path = "success"]]
    /\ UNCHANGED <<LAMBDA_URL, requests, console, nSubmits, lastSubmit>>

SubmitFailure_ClearsFields(i) ==
    /\ calls[i].pc = "json"
    /\ \E b \in Bodies :
          LET resp == [arrived |-> TRUE, ok |-> calls[i].ok,
                       body |-> b, thrown |-> None]
          IN  /\ JsonParses(b) /\ ~PropertyReadThrows(b)
              /\ ~IsSuccess(resp)
              /\ message' = FailureMessage(b)
              /\ last' = [path |-> "failure", resp |-> resp]
    /\ instanceName' = <<>>
    /\ email' = <<>>
    /\ isSubmitting' = FALSE
    /\ calls' = [calls EXCEPT ![i] = [@ EXCEPT !.pc = "done", !.path = "failure"]]
    /\ UNCHANGED <<LAMBDA_URL, requests, console, nSubmits, lastSubmit>>

(* lines 90-92, 101-107 and 114-116 *)
SubmitFailure(i) ==
    /\ calls[i].pc = "json"
    /\ \E b \in Bodies :
          LET resp == [arrived |-> TRUE, ok |-> calls[i].ok,
                       body |-> b, thrown |-> None]
          IN  /\ JsonParses(b) /\ ~PropertyReadThrows(b)
              /\ ~IsSuccess(resp)
              /\ message' = FailureMessage(b)
              /\ last' = [path |-> "failure", resp |-> resp]
    /\ isSubmitting' = FALSE
    /\ calls' = [calls EXCEPT ![i] = [@ EXCEPT !.pc = "done", !.path = "failure"]]
    /\ UNCHANGED <<LAMBDA_URL, instanceName, email, requests, console,
                   nSubmits, lastSubmit>>

(* ============================ App: helpers ============================ *)
MaxUploads == 2

(* JS numbers: NaN, or an integer (money in cents, rates in yen per dollar) *)
NaN == [nan |-> TRUE, v |-> 0]
Num(n) == [nan |-> FALSE, v |-> n]
NumTruthy(x) == ~x.nan /\ x.v # 0

DigitVal(c) == CHOOSE n \in 0..9 : ToString(n) = c

RECURSIVE DigitsVal(_)
DigitsVal(s) ==
    IF s = <<>> THEN 0
    ELSE 10 * DigitsVal(SubSeq(s, 1, Len(s) - 1)) + DigitVal(s[Len(s)])

(* .replace(/[^\d.-]/g, "") *)
Strip(s) == SelectSeq(s, LAMBDA c : c \in Digit \cup {".", "-"})

(* Number(str) of a string of digits, '.' and '-', in cents (two decimals) *)
NumberOf(s) ==
    IF s = <<>> THEN Num(0)
    ELSE LET neg  == Head(s) = "-"
             u    == IF neg THEN Tail(s) ELSE s
             dots == { k \in 1..Len(u) : u[k] = "." }
             dot  == IF dots = {} THEN Len(u) + 1 ELSE CHOOSE k \in dots : TRUE
             ip   == SubSeq(u, 1, dot - 1)
             fp   == SubSeq(u, dot + 1, Len(u))
             fp2  == SubSeq(fp \o <<"0", "0">>, 1, 2)
             mag  == 100 * DigitsVal(ip) + DigitsVal(fp2)
         IN  IF \/ \E k \in 1..Len(u) : u[k] = "-"
                \/ Cardinality(dots) > 1
                \/ Len(ip) + Len(fp) = 0
             THEN NaN
             ELSE Num(IF neg THEN 0 - mag ELSE mag)

(* lines 211-212; v is an optional string (v ?? "") *)
toNumber(v) ==
    LET n == NumberOf(Strip(IF v = None THEN <<>> ELSE v[1]))
    IN  IF NumTruthy(n) THEN n.v ELSE 0

(* Number(d?.rates?.JPY), lines 222 and 230 *)
RateOf(jpy) == IF jpy = None THEN NaN ELSE Num(jpy[1])

FALLBACK_RATE == 150

(* what a rate source may answer in rates.JPY *)
RateAnswers == { None, Some(0), Some(0 - 2), Some(149) }

UNNAMED == "(unnamed)"
UNKNOWN == <<"(", "?", ")">>

Item(n, c) == [name |-> n, cost |-> c]

DocSpecExample ==
    [name |-> Some("estimate"),
     total |-> Some(<<"$","1","2",".","5","0">>),
     services |-> Some(<<Item(Some(<<"A">>), Some(<<"$","5",".","0","0">>)),
                         Item(Some(<<"B">>), Some(<<"$","7",".","5","0">>))>>)]
DocNoTotal ==
    [name |-> None,
     total |-> None,
     services |-> Some(<<Item(Some(<<" ","C">>), Some(<<"3",".","0","0">>)),
                         Item(None, Some(<<"4",".","0","0">>))>>)]
DocZeroTotal ==
    [name |-> Some("zero"),
     total |-> Some(<<"0">>),
     services |-> Some(<<Item(Some(<<"D">>), Some(<<"1",".","5">>)),
                         Item(Some(<<"E">>), None)>>)]
DocEmpty == [name |-> None, total |-> None, services |-> None]

Docs == { DocSpecExample, DocNoTotal, DocZeroTotal, DocEmpty }

(* a file's text either parses to one of Docs or is not JSON *)
NotJson == [name |-> Some("<not json>"), total |-> None, services |-> None]
Files == Docs \cup {NotJson}

(* lines 254-259 *)
ServiceUsdRows(json) ==
    LET services == IF json.services = None THEN <<>> ELSE json.services[1]
    IN  [k \in 1..Len(services) |->
            [name |-> Trim(IF services[k].name = None THEN UNKNOWN
                           ELSE services[k].name[1]),
             usd  |-> toNumber(services[k].cost),
             jpy  |-> 0]]

RECURSIVE SumUsd(_)
SumUsd(rs) == IF rs = <<>> THEN 0 ELSE rs[1].usd + SumUsd(Tail(rs))

MonthlyUsd_TotalOnly(json) == toNumber(json.total)

(* lines 262-265 *)
MonthlyUsd(json) ==
    LET monthlyUsd == toNumber(json.total)
    IN  IF monthlyUsd = 0 THEN SumUsd(ServiceUsdRows(json)) ELSE monthlyUsd

WithJpy_FallbackRate(rs, fx) ==
    [k \in 1..Len(rs) |-> [rs[k] EXCEPT !.jpy = rs[k].usd * FALLBACK_RATE]]

(* line 269 *)
WithJpy(rs, fx) == [k \in 1..Len(rs) |-> [rs[k] EXCEPT !.jpy = rs[k].usd * fx]]

(* ============================= App: state ============================= *)
VARIABLES
    name,           \* useState("")
    rate,           \* useState(null)
    totalUsd,       \* useState(null)
    totalJpy,       \* useState(null)
    rows,           \* useState([])
    raw,            \* useState(null)
    uploads,        \* handleFile invocations, in the order they started
    lastRate        \* the getUsdJpyRate call that returned most recently

appVars == <<name, rate, totalUsd, totalJpy, rows, raw, uploads, lastRate>>

(* requests of getUsdJpyRate that have been issued and not yet settled *)
RateInFlight ==
    { u \in 1..Len(uploads) :
        uploads[u].pc \in {"fetch1", "json1", "fetch2", "json2"} }

AppInit ==
    /\ name = ""
    /\ rate = None
    /\ totalUsd = None
    /\ totalJpy = None
    /\ rows = <<>>
    /\ raw = None
    /\ uploads = <<>>
    /\ lastRate = [a1 |-> "none", a2 |-> "none", jpy |-> None, fx |-> 0,
                   warned |-> FALSE]

(* ============================ App: actions ============================ *)
(* lines 289 and 247-248: a file is chosen; handleFile suspends at file.text() *)
ChooseFile ==
    /\ Len(uploads) < MaxUploads
    /\ \E f \in Files :
          uploads' = Append(uploads, [pc |-> "text", file |-> f,
                                      a1 |-> "none", a2 |-> "none"])
    /\ UNCHANGED <<name, rate, totalUsd, totalJpy, rows, raw, lastRate>>

ParseThrows_Swallowed(u) ==
    /\ uploads[u].pc = "text"
    /\ uploads[u].file = NotJson
    /\ raw' = Some(DocEmpty)
    /\ name' = UNNAMED
    /\ uploads' = [uploads EXCEPT ![u].pc = "fetch1"]
    /\ UNCHANGED <<rate, totalUsd, totalJpy, rows, lastRate>>

(* line 249: JSON.parse throws; the promise of handleFile rejects and *)
(* nothing awaits or catches it (line 289)                            *)
ParseThrows(u) ==
    /\ uploads[u].pc = "text"
    /\ uploads[u].file = NotJson
    /\ uploads' = [uploads EXCEPT ![u].pc = "rejected"]
    /\ UNCHANGED <<name, rate, totalUsd, totalJpy, rows, raw, lastRate>>

(* lines 249-268 and 216-219: parsed; getUsdJpyRate suspends at the first fetch *)
ParseOk(u) ==
    /\ uploads[u].pc = "text"
    /\ uploads[u].file # NotJson
    /\ raw' = Some(uploads[u].file)
    /\ name' = IF uploads[u].file.name = None THEN UNNAMED
               ELSE uploads[u].file.name[1]
    /\ uploads' = [uploads EXCEPT ![u].pc = "fetch1"]
    /\ UNCHANGED <<rate, totalUsd, totalJpy, rows, lastRate>>

(* lines 268-274: getUsdJpyRate returned fx; handleFile runs to its end *)
Finish(u, att, fx) ==
    LET json == uploads[u].file
    IN  /\ rate' = Some(fx)
        /\ rows' = WithJpy(ServiceUsdRows(json), fx)
        /\ totalUsd' = Some(MonthlyUsd(json))
        /\ totalJpy' = Some(MonthlyUsd(json) * fx)
        /\ uploads' = [uploads EXCEPT ![u] =
                          [pc |-> "done", file |-> json,
                           a1 |-> "none", a2 |-> "none"]]
        /\ lastRate' = [att EXCEPT !.fx = fx]
        /\ UNCHANGED <<name, raw>>

(* lines 225-227: the first try block is left without a return; the second *)
(* one starts the secondary fetch                                          *)
StartSecondary(u, how) ==
    /\ uploads' = [uploads EXCEPT ![u].pc = "fetch2", ![u].a1 = how]
    /\ UNCHANGED <<name, rate, totalUsd, totalJpy, rows, raw, lastRate>>

(* lines 233-236: the second try block is left without a return *)
Fallback(u, how) ==
    Finish(u, [a1 |-> uploads[u].a1, a2 |-> how, jpy |-> None, fx |-> 0,
               warned |-> TRUE], FALLBACK_RATE)

PrimaryRejects_GivesUp(u) ==
    /\ uploads[u].pc = "fetch1"
    /\ Fallback(u, "failed")

(* lines 217-219 and 225: the primary fetch rejects (transport error) *)
PrimaryRejects(u) ==
    /\ uploads[u].pc = "fetch1"
    /\ StartSecondary(u, "failed")

(* line 220: the primary answers with a status that is not ok *)
PrimaryNotOk(u) ==
    /\ uploads[u].pc = "fetch1"
    /\ StartSecondary(u, "failed")

(* line 220: r1.ok; getUsdJpyRate suspends at r1.json() *)
PrimaryResponds(u) ==
    /\ uploads[u].pc = "fetch1"
    /\ uploads' = [uploads EXCEPT ![u].pc = "json1"]
    /\ UNCHANGED <<name, rate, totalUsd, totalJpy, rows, raw, lastRate>>

(* line 221 rejects (body is not JSON); caught at line 225 *)
PrimaryBodyThrows(u) ==
    /\ uploads[u].pc = "json1"
    /\ StartSecondary(u, "failed")

(* lines 221-223: the body parsed; if (fx) return fx *)
PrimaryBody(u) ==
    /\ uploads[u].pc = "json1"
    /\ \E j \in RateAnswers :
          LET fx == RateOf(j)
          IN  IF NumTruthy(fx)
              THEN Finish(u, [a1 |-> "rate", a2 |-> uploads[u].a2, jpy |-> j,
                              fx |-> 0, warned |-> FALSE], fx.v)
              ELSE StartSecondary(u, "norate")

(* lines 227 and 233: the secondary fetch rejects (transport error) *)
SecondaryRejects(u) ==
    /\ uploads[u].pc = "fetch2"
    /\ Fallback(u, "failed")

(* line 228: the secondary answers with a status that is not ok *)
SecondaryNotOk(u) ==
    /\ uploads[u].pc = "fetch2"
    /\ Fallback(u, "failed")

(* line 228: r2.ok; getUsdJpyRate suspends at r2.json() *)
SecondaryResponds(u) ==
    /\ uploads[u].pc = "fetch2"
    /\ uploads' = [uploads EXCEPT ![u].pc = "json2"]
    /\ UNCHANGED <<name, rate, totalUsd, totalJpy, rows, raw, lastRate>>

(* line 229 rejects; caught at line 233 *)
SecondaryBodyThrows(u) ==
    /\ uploads[u].pc = "json2"
    /\ Fallback(u, "failed")

(* lines 229-231 *)
SecondaryBody(u) ==
    /\ uploads[u].pc = "json2"
    /\ \E j \in RateAnswers :
          LET fx == RateOf(j)
          IN  IF NumTruthy(fx)
              THEN Finish(u, [a1 |-> uploads[u].a1, a2 |-> "rate", jpy |-> j,
                              fx |-> 0, warned |-> FALSE], fx.v)
              ELSE Fallback(u, "norate")

(* ========================== specifications ============================ *)
vars == <<formVars, appVars>>

(* the form component mounted alone (export default ProvisionForm) *)
Init == FormInit /\ AppInit

Next ==
    \/ SetInstanceName /\ UNCHANGED appVars
    \/ SetEmail /\ UNCHANGED appVars
    \/ SubmitBlocked /\ UNCHANGED appVars
    \/ SubmitConfigError /\ UNCHANGED appVars
    \/ SubmitFetch /\ UNCHANGED appVars
    \/ \E i \in 1..Len(calls) : FetchResolve(i) /\ UNCHANGED appVars
    \/ \E i \in 1..Len(calls) : FetchReject(i) /\ UNCHANGED appVars
    \/ \E i \in 1..Len(calls) : JsonThrow(i) /\ UNCHANGED appVars
    \/ \E i \in 1..Len(calls) : SubmitSuccess(i) /\ UNCHANGED appVars
    \/ \E i \in 1..Len(calls) : SubmitFailure(i) /\ UNCHANGED appVars

Spec == Init /\ [][Next]_vars

(* the estimate viewer mounted alone (export default function App) *)
AggInit == FormInit /\ AppInit /\ LAMBDA_URL = PLACEHOLDER_URL_CHECK

AggNext ==
    \/ ChooseFile /\ UNCHANGED formVars
    \/ \E u \in 1..Len(uploads) : ParseThrows(u) /\ UNCHANGED formVars
    \/ \E u \in 1..Len(uploads) : ParseOk(u) /\ UNCHANGED formVars
    \/ \E u \in 1..Len(uploads) : PrimaryRejects(u) /\ UNCHANGED formVars
    \/ \E u \in 1..Len(uploads) : PrimaryNotOk(u) /\ UNCHANGED formVars
    \/ \E u \in 1..Len(uploads) : PrimaryResponds(u) /\ UNCHANGED formVars
    \/ \E u \in 1..Len(uploads) : PrimaryBodyThrows(u) /\ UNCHANGED formVars
    \/ \E u \in 1..Len(uploads) : PrimaryBody(u) /\ UNCHANGED formVars
    \/ \E u \in 1..Len(uploads) : SecondaryRejects(u) /\ UNCHANGED formVars
    \/ \E u \in 1..Len(uploads) : SecondaryNotOk(u) /\ UNCHANGED formVars
    \/ \E u \in 1..Len(uploads) : SecondaryResponds(u) /\ UNCHANGED formVars
    \/ \E u \in 1..Len(uploads) : SecondaryBodyThrows(u) /\ UNCHANGED formVars
    \/ \E u \in 1..Len(uploads) : SecondaryBody(u) /\ UNCHANGED formVars

AggSpec == AggInit /\ [][AggNext]_vars

(* line 79: the promise of fetch settles *)
FetchSettles == \E i \in 1..Len(calls) : FetchResolve(i) \/ FetchReject(i)

(* line 90: the promise of response.json() settles *)
BodySettles ==
    \E i \in 1..Len(calls) :
        JsonThrow(i) \/ SubmitSuccess(i) \/ SubmitFailure(i)

(* the form component with every pending fetch and body read settling:   *)
(* the browser resolves or rejects each promise the handler awaits        *)
FairSpec ==
    /\ Spec
    /\ WF_vars(FetchSettles /\ UNCHANGED appVars)
    /\ WF_vars(BodySettles /\ UNCHANGED appVars)

(* ============================== claims ================================ *)

(* C1: a submit event delivered while isFormValid is false issues no       *)
(* request and changes neither isSubmitting nor message, whether or not a  *)
(* submission is in progress.                                              *)
C1_InvalidSubmitDoesNothing ==
    [][ ( /\ nSubmits' # nSubmits
          /\ ~(NAME_REGEX(instanceName) /\ EMAIL_REGEX(email)) )
        => UNCHANGED <<requests, calls, isSubmitting, message>> ]_vars

C1_Witness ==
    /\ nSubmits > 0
    /\ lastSubmit = [valid |-> FALSE, busy |-> TRUE, accepted |-> FALSE]
    /\ isSubmitting
    /\ Len(requests) = 1

(* C2: a submit event delivered while isSubmitting is true is ignored (no  *)
(* request, nothing queued); at most one request is in flight and there    *)
(* are never more requests than accepted submits.                          *)
C2_AtMostOneInFlight ==
    /\ [](/\ Cardinality({ i \in 1..Len(calls) :
                             calls[i].pc \in {"fetch", "json"} }) <= 1
          /\ Len(requests) <= Len(calls))
    /\ [][ (nSubmits' # nSubmits /\ isSubmitting)
           => UNCHANGED <<requests, calls, isSubmitting, message>> ]_vars

C2_Witness ==
    /\ lastSubmit = [valid |-> TRUE, busy |-> TRUE, accepted |-> FALSE]
    /\ Len(requests) = 1
    /\ Len(calls) = 1
    /\ calls[1].pc = "fetch"

(* C3: with the endpoint empty or equal to the placeholder, every accepted *)
(* submit ends in the configuration-error message and no request is ever   *)
(* issued.                                                                 *)
C3_ConfigErrorBeforeFetch ==
    (LAMBDA_URL \in {"", PLACEHOLDER_URL_CHECK})
    => /\ requests = <<>>
       /\ \A i \in 1..Len(calls) : calls[i].pc = "done"
       /\ (Len(calls) > 0
           => /\ message = [type |-> "error", text |-> <<CONFIG_ERROR_TEXT>>]
              /\ ~isSubmitting)

C3_Witness ==
    /\ LAMBDA_URL = PLACEHOLDER_URL_CHECK
    /\ Len(calls) = 2
    /\ lastSubmit.accepted
    /\ message.text = <<CONFIG_ERROR_TEXT>>

(* C4: isSubmitting set by an accepted submit is eventually reset, and it  *)
(* is false whenever no invocation of handleSubmit is pending, on the      *)
(* configuration-error, success, server-failure and transport-failure      *)
(* paths alike.                                                            *)
C4_SubmittingEventuallyFalse ==
    /\ isSubmitting ~> ~isSubmitting
    /\ []((\A i \in 1..Len(calls) : calls[i].pc = "done") => ~isSubmitting)

C4_Witness ==
    /\ Len(calls) = 2
    /\ calls[1].pc = "done" /\ calls[1].path = "failure"
    /\ calls[2].pc = "done" /\ calls[2].path = "caught"
    /\ ~last.resp.arrived
    /\ ~isSubmitting

(* C5: a response with an ok status and a body whose ok is true ends the  *)
(* submit with a success message that shows the executionId of the body,   *)
(* or a "not available" marker instead of the rendering of a missing       *)
(* value when the body has no executionId, and with both fields empty.     *)
C5_SuccessShowsIdOrMarker ==
    [][ ( /\ \E i \in 1..Len(calls) :
                calls[i].pc = "json" /\ calls'[i].pc = "done"
          /\ last'.resp.ok
          /\ last'.resp.body.kind = "object"
          /\ last'.resp.body.ok )
        => /\ message'.type = "success"
           /\ Len(message'.text) = 3
           /\ IF last'.resp.body.executionId # None
              THEN message'.text[2] = last'.resp.body.executionId[1]
              ELSE message'.text[2] \notin {"undefined", "null", ""}
           /\ instanceName' = <<>>
           /\ email' = <<>> ]_vars

(* C6: a JSON object answer that is not a success (HTTP status not ok, or  *)
(* ok false in the body) ends the submit with an error message carrying    *)
(* the error string of the body, or the unknown-server-error text when the *)
(* body has none (an empty error string shows the same text); it is never  *)
(* a success message.                                                      *)
C6_ServerFailureMessage ==
    ( /\ \A i \in 1..Len(calls) : calls[i].pc = "done"
      /\ last.resp.arrived
      /\ last.resp.body.kind = "object"
      /\ ~(last.resp.ok /\ last.resp.body.ok) )
    => /\ message.type = "error"
       /\ Len(message.text) = 2
       /\ message.text[1] = FAILURE_PREFIX
       /\ IF last.resp.body.error = None
          THEN message.text[2] = UNKNOWN_SERVER_ERROR
          ELSE \/ message.text[2] = last.resp.body.error[1]
               \/ /\ last.resp.body.error[1] = ""
                  /\ message.text[2] = UNKNOWN_SERVER_ERROR

C6_Witness ==
    /\ \A i \in 1..Len(calls) : calls[i].pc = "done"
    /\ last.resp.arrived
    /\ ~last.resp.ok
    /\ last.resp.body.kind = "object"
    /\ last.resp.body.ok
    /\ last.resp.body.error = <<"quota exceeded">>
    /\ message = [type |-> "error",
                  text |-> <<FAILURE_PREFIX, "quota exceeded">>]

C8_FieldsClearedOnlyOnSuccess ==
    [][ ( /\ (calls' # calls \/ nSubmits' # nSubmits)
          /\ ~( /\ \E i \in 1..Len(calls) :
                      calls[i].pc = "json" /\ calls'[i].pc = "done"
                /\ last'.resp.arrived
                /\ last'.resp.thrown = None
                /\ last'.resp.ok
                /\ last'.resp.body.ok ) )
        => UNCHANGED <<instanceName, email>> ]_vars

C8_Witness ==
    /\ \A i \in 1..Len(calls) : calls[i].pc = "done"
    /\ Len(calls) = 2
    /\ calls[1].path = "failure"
    /\ calls[2].path = "caught"
    /\ nSubmits = 2
    /\ instanceName = <<"w","i","n","-","0","1">>
    /\ email = <<"a","@","b",".","c">>

(* C9: while an accepted submit is pending the message is null, and once   *)
(* no submit is pending the message is the one of the outcome of the       *)
(* latest accepted submit.                                                 *)
C9_MessageIsLatestOutcome ==
    /\ (\E i \in 1..Len(calls) : calls[i].pc # "done") => message = NULL
    /\ ( /\ Len(calls) > 0
         /\ \A i \in 1..Len(calls) : calls[i].pc = "done" )
       => /\ message # NULL
          /\ last.path = calls[Len(calls)].path
          /\ (message.type = "success") = (last.path = "success")
          /\ (message.text[1] = CONFIG_ERROR_TEXT) = (last.path = "config")
          /\ (message.text[1] = NETWORK_ERROR_TEXT) = (last.path = "caught")
          /\ (message.text[1] = FAILURE_PREFIX) = (last.path = "failure")

C9_Witness ==
    /\ Len(calls) = 2
    /\ calls[1].path = "failure"
    /\ calls[2].path = "success"
    /\ message.type = "success"

(* C10: getUsdJpyRate asks the secondary source only after the primary     *)
(* attempt has failed, returns the rate of the first attempt that yields   *)
(* one, returns the fallback 150 (with a warning) exactly when both        *)
(* attempts have failed, and always returns a rate: handleFile is rejected *)
(* only for a file that is not JSON.                                       *)
C10_RateFetchOrder ==
    LET Failed == {"failed", "norate"}
    IN  /\ \A u \in 1..Len(uploads) :
              /\ uploads[u].pc \in {"fetch2", "json2"}
                    => uploads[u].a1 \in Failed
              /\ uploads[u].pc \in {"fetch1", "json1"}
                    => uploads[u].a1 = "none"
              /\ uploads[u].pc = "rejected" => uploads[u].file = NotJson
              /\ uploads[u].pc = "done" => rate # None
        /\ lastRate.a2 # "none" => lastRate.a1 \in Failed
        /\ lastRate.a1 = "rate"
             => /\ lastRate.a2 = "none"
                /\ lastRate.jpy # None
                /\ lastRate.fx = lastRate.jpy[1]
                /\ lastRate.fx # 0
        /\ lastRate.a2 = "rate"
             => /\ lastRate.jpy # None
                /\ lastRate.fx = lastRate.jpy[1]
                /\ lastRate.fx # 0
        /\ lastRate.warned = (lastRate.a1 \in Failed /\ lastRate.a2 \in Failed)
        /\ lastRate.warned => lastRate.fx = 150
        /\ (\E u \in 1..Len(uploads) : uploads[u].pc = "done")
             => rate = <<lastRate.fx>>

C10_Witness ==
    /\ \E u \in 1..Len(uploads) : uploads[u].pc = "done"
    /\ lastRate.a1 = "norate"
    /\ lastRate.a2 = "failed"
    /\ lastRate.warned
    /\ rate = <<150>>

(* C11: an answer whose rate is missing, zero or negative counts as a      *)
(* failed attempt, so the rate getUsdJpyRate returns, and the rate         *)
(* displayed and used for the conversion, is strictly positive.            *)
C11_RateAlwaysPositive ==
    /\ (lastRate.a1 = "rate" \/ lastRate.a2 = "rate")
          => (lastRate.jpy # None /\ lastRate.jpy[1] > 0)
    /\ rate # None => rate[1] > 0

(* ================ App: one upload after the other ===================== *)
(* more documents for the computation of lines 254-265 *)
DocTotalOnly ==
    [name |-> Some("total only"),
     total |-> Some(<<"$","9",".","9","9">>),
     services |-> None]
DocBadTotal ==
    [name |-> Some("bad total"),
     total |-> Some(<<"T","B","D","-">>),
     services |-> Some(<<Item(Some(<<"F">>), Some(<<"2",".","2","5">>)),
                         Item(Some(<<"G">>), Some(<<"1",".","2",".","3">>))>>)]
DocOverride ==
    [name |-> Some("override"),
     total |-> Some(<<"1",",","0","0","0",".","0","0"," ","U","S","D">>),
     services |-> Some(<<Item(Some(<<"H">>), Some(<<"5">>)),
                         Item(Some(<<"I">>), Some(<<"-",".","5">>))>>)]

CostFiles == Files \cup {DocTotalOnly, DocBadTotal, DocOverride}

(* lines 289 and 247-248, the file chosen once the previous upload is over *)
ChooseCostFile ==
    /\ Len(uploads) < MaxUploads
    /\ \A u \in 1..Len(uploads) : uploads[u].pc \in {"done", "rejected"}
    /\ \E f \in CostFiles :
          uploads' = Append(uploads, [pc |-> "text", file |-> f,
                                      a1 |-> "none", a2 |-> "none"])
    /\ UNCHANGED <<name, rate, totalUsd, totalJpy, rows, raw, lastRate>>

CostNext ==
    \/ ChooseCostFile /\ UNCHANGED formVars
    \/ \E u \in 1..Len(uploads) : ParseThrows(u) /\ UNCHANGED formVars
    \/ \E u \in 1..Len(uploads) : ParseOk(u) /\ UNCHANGED formVars
    \/ \E u \in 1..Len(uploads) : PrimaryRejects(u) /\ UNCHANGED formVars
    \/ \E u \in 1..Len(uploads) : PrimaryNotOk(u) /\ UNCHANGED formVars
    \/ \E u \in 1..Len(uploads) : PrimaryResponds(u) /\ UNCHANGED formVars
    \/ \E u \in 1..Len(uploads) : PrimaryBodyThrows(u) /\ UNCHANGED formVars
    \/ \E u \in 1..Len(uploads) : PrimaryBody(u) /\ UNCHANGED formVars
    \/ \E u \in 1..Len(uploads) : SecondaryRejects(u) /\ UNCHANGED formVars
    \/ \E u \in 1..Len(uploads) : SecondaryNotOk(u) /\ UNCHANGED formVars
    \/ \E u \in 1..Len(uploads) : SecondaryResponds(u) /\ UNCHANGED formVars
    \/ \E u \in 1..Len(uploads) : SecondaryBodyThrows(u) /\ UNCHANGED formVars
    \/ \E u \in 1..Len(uploads) : SecondaryBody(u) /\ UNCHANGED formVars

(* the estimate viewer used for one file at a time *)
CostSpec == AggInit /\ [][CostNext]_vars

(* C12: when handleFile finishes, totalUsd is the coerced top-level total  *)
(* if that is a non-zero number, and otherwise (total absent, not a        *)
(* number, or zero) the sum of the coerced costs of the line items, 0 for  *)
(* an empty list.  Amounts are in cents.                                   *)
C12_TotalOrItemSum ==
    [][ \A u \in 1..Len(uploads) :
          (uploads[u].pc # "done" /\ uploads'[u].pc = "done")
          => LET f     == uploads[u].file
                 t     == toNumber(f.total)
                 items == IF f.services = None THEN <<>> ELSE f.services[1]
                 c(k)  == IF k <= Len(items) THEN toNumber(items[k].cost) ELSE 0
             IN  /\ Len(items) <= 2
                 /\ totalUsd' = <<IF t # 0 THEN t ELSE c(1) + c(2)>>
                 /\ f = DocSpecExample => totalUsd' = <<1250>>
                 /\ f = DocNoTotal => totalUsd' = <<700>>
                 /\ f = DocZeroTotal => totalUsd' = <<150>>
                 /\ f = DocEmpty => totalUsd' = <<0>>
                 /\ f = DocTotalOnly => totalUsd' = <<999>>
                 /\ f = DocBadTotal => totalUsd' = <<225>>
                 /\ f = DocOverride => totalUsd' = <<100000>> ]_vars

C12_Witness ==
    /\ Len(uploads) = 2
    /\ uploads[1].pc = "done" /\ uploads[1].file = DocOverride
    /\ uploads[2].pc = "done" /\ uploads[2].file = DocBadTotal
    /\ totalUsd = <<225>>

(* C13: for each kind of operation at most one network request is pending  *)
(* at any time: at most one submission request, and at most one rate       *)
(* request even when a second upload starts while the first one's rate     *)
(* fetch is pending.                                                       *)
C13_OneRequestPerKind ==
    /\ Cardinality({ i \in 1..Len(calls) : calls[i].pc = "fetch" }) <= 1
    /\ Cardinality({ u \in 1..Len(uploads) :
                       uploads[u].pc \in {"fetch1", "fetch2"} }) <= 1

(* C14: a file whose text is not JSON ends handleFile in a rejection (an   *)
(* outcome distinct from a finished upload), never reaches a rate request  *)
(* or the end of handleFile, and the rejecting step leaves name, raw,      *)
(* rows, totalUsd, totalJpy and rate as they were.                         *)
C14_ParseFailureRejects ==
    /\ [](\A u \in 1..Len(uploads) :
             uploads[u].file = NotJson
                => uploads[u].pc \in {"text", "rejected"})
    /\ [][ (\E u \in 1..Len(uploads) :
               /\ uploads[u].file = NotJson
               /\ uploads'[u] # uploads[u])
           => /\ UNCHANGED <<name, raw, rows, totalUsd, totalJpy, rate>>
              /\ \E u \in 1..Len(uploads) :
                    uploads[u].pc = "text" /\ uploads'[u].pc = "rejected"
         ]_vars

C14_Witness ==
    /\ Len(uploads) = 2
    /\ uploads[1].pc = "done"
    /\ uploads[1].file = DocSpecExample
    /\ uploads[2].pc = "rejected"
    /\ uploads[2].file = NotJson
    /\ raw = <<DocSpecExample>>
    /\ Len(rows) = 2

(* C18: once an upload has finished, every displayed row has               *)
(* jpy = usd * rate and totalJpy = totalUsd * rate for the displayed rate, *)
(* and the rows are those of one finished upload's document, not a         *)
(* concatenation with rows of an earlier upload.                           *)
C18_DisplayConsistentWithRate ==
    (totalUsd # None \/ \E u \in 1..Len(uploads) : uploads[u].pc = "done")
    => /\ rate # None /\ totalUsd # None /\ totalJpy # None
       /\ totalJpy[1] = totalUsd[1] * rate[1]
       /\ \A k \in 1..Len(rows) : rows[k].jpy = rows[k].usd * rate[1]
       /\ \E u \in 1..Len(uploads) :
             LET items == IF uploads[u].file.services = None THEN <<>>
                          ELSE uploads[u].file.services[1]
             IN  /\ uploads[u].pc = "done"
                 /\ Len(rows) = Len(items)
                 /\ \A k \in 1..Len(rows) :
                       rows[k].usd = toNumber(items[k].cost)

C18_Witness ==
    /\ Len(uploads) = 2
    /\ uploads[1].pc = "done" /\ uploads[1].file = DocNoTotal
    /\ uploads[2].pc = "done" /\ uploads[2].file = DocSpecExample
    /\ rate = <<149>>
    /\ Len(rows) = 2
    /\ rows[1].usd = 500 /\ rows[1].jpy = 74500
    /\ totalJpy = <<186250>>

(* C19: whenever totals are displayed, the displayed raw document is the   *)
(* document the displayed rows and total were computed from, and once all  *)
(* uploads are over the display is that of the upload started last.        *)
C19_DisplayIsLatestUpload ==
    /\ (totalUsd # None /\ raw # None)
          => LET items == IF raw[1].services = None THEN <<>>
                          ELSE raw[1].services[1]
             IN  /\ Len(rows) = Len(items)
                 /\ \A k \in 1..Len(rows) :
                       rows[k].usd = toNumber(items[k].cost)
    /\ ( /\ uploads # <<>>
         /\ \A u \in 1..Len(uploads) : uploads[u].pc \in {"done", "rejected"}
         /\ uploads[Len(uploads)].pc = "done" )
       => LET f     == uploads[Len(uploads)].file
              items == IF f.services = None THEN <<>> ELSE f.services[1]
          IN  /\ raw = <<f>>
              /\ Len(rows) = Len(items)
              /\ \A k \in 1..Len(rows) : rows[k].usd = toNumber(items[k].cost)

(* C17: when the response to the submission arrived and its body is plain  *)
(* text (not JSON), the submit ends with an error message that is not the  *)
(* network-error message of the transport-failure path.                    *)
C17_NonJsonBodyNotNetworkError ==
    ( /\ \A i \in 1..Len(calls) : calls[i].pc = "done"
      /\ last.resp.arrived
      /\ last.resp.body.kind = "text" )
    => /\ message.type = "error"
       /\ message.text # <<NETWORK_ERROR_TEXT>>

(* C20: with LAMBDA_URL equal to the placeholder, as shipped, no request   *)
(* is ever issued, no success message is ever shown, isSubmitting is never *)
(* left true, no submit changes instanceName or email, and every accepted  *)
(* submit sets the configuration-error message.                            *)
C20_ShippedEndpointNeverSubmits ==
    /\ []( (LAMBDA_URL = PLACEHOLDER_URL_CHECK)
           => /\ requests = <<>>
              /\ message.type # "success"
              /\ ~isSubmitting
              /\ \A i \in 1..Len(calls) : calls[i].path = "config" )
    /\ [][ (LAMBDA_URL = PLACEHOLDER_URL_CHECK /\ nSubmits' # nSubmits)
           => /\ UNCHANGED <<instanceName, email>>
              /\ (lastSubmit'.accepted
                    => /\ Len(calls') = Len(calls) + 1
                       /\ message' = [type |-> "error",
                                      text |-> <<CONFIG_ERROR_TEXT>>]
                       /\ ~isSubmitting')
         ]_vars

C20_Witness ==
    /\ LAMBDA_URL = PLACEHOLDER_URL_CHECK
    /\ nSubmits = 3
    /\ Len(calls) = 1
    /\ lastSubmit.accepted
    /\ instanceName = <<"w","i","n","-","0","1">>
    /\ email = <<"a","@","b",".","c">>
    /\ message = [type |-> "error", text |-> <<CONFIG_ERROR_TEXT>>]
    /\ ~isSubmitting

(* ============== ProvisionForm: the two validity predicates ============= *)
(* Names of every length up to MaxNameLen: one repeated character of the   *)
(* class, with the first, the middle or the last character replaced by     *)
(* another character of the class or by one outside it.                    *)
NameGood == {"a", "Z", "0", "-"}
NameBad == {" ", "\n", "_", "."}

Rep(c, n) == [k \in 1..n |-> c]

NameSamples ==
    { Rep(c, n) : c \in NameGood, n \in 0..MaxNameLen }
    \cup UNION { { [Rep(c, n) EXCEPT ![p] = b] :
                     p \in {1, (n + 1) \div 2, n},
                     b \in NameGood \cup NameBad } :
                 c \in NameGood, n \in 1..MaxNameLen }

(* the form with a name already in the field and a valid email address;    *)
(* each submit evaluates isFormValid at line 63                            *)
NameInit ==
    /\ AppInit
    /\ LAMBDA_URL = PLACEHOLDER_URL_CHECK
    /\ instanceName \in NameSamples
    /\ email = <<"a", "@", "b", ".", "c">>
    /\ isSubmitting = FALSE
    /\ message = NULL
    /\ calls = <<>>
    /\ requests = <<>>
    /\ console = <<>>
    /\ last = [path |-> "none", resp |-> NoResp]
    /\ nSubmits = 0
    /\ lastSubmit = [valid |-> FALSE, busy |-> FALSE, accepted |-> FALSE]

NameNext ==
    \/ SubmitBlocked /\ UNCHANGED appVars
    \/ SubmitConfigError /\ UNCHANGED appVars

NameSpec == NameInit /\ [][NameNext]_vars

EmailAlphabet == {"a", "@", ".", " ", "\n"}

(* line 147: onChange after a character is typed at the end *)
TypeEmail ==
    /\ Len(email) < MaxEmailLen
    /\ \E c \in EmailAlphabet : email' = Append(email, c)
    /\ UNCHANGED <<LAMBDA_URL, instanceName, isSubmitting, message, calls,
                   requests, console, last, nSubmits, lastSubmit>>

(* line 147: onChange after the last character is deleted *)
EraseEmail ==
    /\ email # <<>>
    /\ email' = SubSeq(email, 1, Len(email) - 1)
    /\ UNCHANGED <<LAMBDA_URL, instanceName, isSubmitting, message, calls,
                   requests, console, last, nSubmits, lastSubmit>>

EmailNext ==
    \/ TypeEmail /\ UNCHANGED appVars
    \/ EraseEmail /\ UNCHANGED appVars

EmailSpec == AggInit /\ [][EmailNext]_vars

(* C15: isValidName is true exactly when instanceName has 3 to 32          *)
(* characters, all of them ASCII letters, digits or hyphens; it is false   *)
(* for lengths 0, 1, 2 and 33 or more and for any other character, leading *)
(* or trailing whitespace included. A submit sees the form as valid        *)
(* exactly for such names (the email being valid).                         *)
C15_NameValidity ==
    LET ok == /\ Len(instanceName) >= 3
              /\ Len(instanceName) <= 32
              /\ \A k \in 1..Len(instanceName) :
                    instanceName[k] \in
                      {"A","B","C","D","E","F","G","H","I","J","K","L","M",
                       "N","O","P","Q","R","S","T","U","V","W","X","Y","Z",
                       "a","b","c","d","e","f","g","h","i","j","k","l","m",
                       "n","o","p","q","r","s","t","u","v","w","x","y","z",
                       "0","1","2","3","4","5","6","7","8","9","-"}
    IN  /\ isValidName = ok
        /\ (Len(instanceName) \in {0, 1, 2} \/ Len(instanceName) >= 33)
              => ~isValidName
        /\ ( /\ instanceName # <<>>
             /\ \/ instanceName[1] \in {" ", "\n"}
                \/ instanceName[Len(instanceName)] \in {" ", "\n"} )
              => ~isValidName
        /\ nSubmits > 0 => lastSubmit.valid = ok

C15_Witness ==
    /\ Len(instanceName) = 32
    /\ instanceName[1] = "-"
    /\ instanceName[32] = "Z"
    /\ isValidName
    /\ nSubmits = 2
    /\ lastSubmit.valid

(* C16: isValidEmail is true exactly when email contains no whitespace and *)
(* exactly one "@", which is not the first character, and some "." stands  *)
(* at least two places after the "@" and before the last character (local, *)
(* domain and tld each non-empty, none containing "@" or whitespace); it   *)
(* is false without "@", with two or more "@", without a "." followed by a  *)
(* character after the "@", and with any whitespace.                       *)
C16_EmailValidity ==
    LET n      == Len(email)
        ats    == { k \in 1..n : email[k] = "@" }
        spaces == { k \in 1..n : email[k] \in {" ", "\t", "\n", "\r", "\f"} }
        dotAfterAt == \E i \in ats : \E j \in (i + 1)..(n - 1) : email[j] = "."
        shape  == \E i \in 1..n : \E j \in 1..n :
                     /\ 1 < i /\ i + 1 < j /\ j < n
                     /\ email[i] = "@"
                     /\ email[j] = "."
                     /\ ats = {i}
                     /\ spaces = {}
    IN  /\ isValidEmail = shape
        /\ (ats = {}) => ~isValidEmail
        /\ (Cardinality(ats) > 1) => ~isValidEmail
        /\ (~dotAfterAt) => ~isValidEmail
        /\ (spaces # {}) => ~isValidEmail

C16_Witness ==
    /\ email = <<"a", "@", ".", ".", "a">>
    /\ isValidEmail

====
